---- MODULE Spec2Model ----
(***************************************************************************)
(* Model of telethon/client/dialogs.py: DialogMethods.iter_dialogs, the    *)
(* asynchronous generator that pages through messages.GetDialogsRequest,   *)
(* and DialogMethods.get_dialogs, the consumer that drains it.             *)
(*                                                                         *)
(* The generator is suspended only at `await self(req)` (a page fetch is   *)
(* in flight) and at `await yield_(cd)` (a record has been handed to the   *)
(* consumer).  Each action below runs the generator from one suspension    *)
(* point to the next one, exactly as the event loop does.                  *)
(***************************************************************************)
EXTENDS Integers, Sequences, FiniteSets, TLC

VARIABLES
    svc,          \* the account the remote service holds
    args,         \* the caller's arguments of iter_dialogs
    pc,           \* position of the generator
    seen,         \* the local set `seen`
    req,          \* the GetDialogsRequest object `req` (or the limit-0 request)
    r,            \* the local `r` while its for loop runs (dialogs truncated);
                  \* NoPage once the page is done with, where `r` is dead
    i,            \* index in r.dialogs of the dialog the for loop is at
    total,        \* _total[0]
    channel_pts,  \* self._channel_pts
    emitted,      \* the records yielded so far, in order (get_dialogs' list)
    fetches,      \* number of page fetches issued (saturates at MaxFetch)
    last,         \* facts about the most recent fetched page, as returned
    exc,          \* the exception the transport raised to the latest fetch, and
                  \* the exception that left the generator
    script,       \* the pages a scripted service sends, in order (else empty)
    burst,        \* number of fetches issued for the consumer's latest request
    other         \* the locals of the other enumeration running on the client,
                  \* while it is not the one taking a step (NoOther: there is none)

vars == <<svc, args, pc, seen, req, r, i, total, channel_pts, emitted, fetches, last,
          exc, script, burst, other>>

----------------------------------------------------------------------------
(* Bounds of the model *)

NPeers == 3
MaxLimit == 2
MaxPageLen == 2
MaxFetch == 3

(* Program constants *)

(* float('inf'), the limit when the caller passes None: above every count  *)
(* and every page length the model reaches                                 *)
Inf == 1000000
(* The largest page size asked for: min(limit - len(seen), 100) *)
ChunkSize == 100

None == 0
InputPeerEmpty == [id |-> 0, migrated_to |-> None]
NoPage == [kind |-> "none"]

Min(a, b) == IF a < b THEN a ELSE b

Peers == 1 .. NPeers

(* utils.get_peer_id: the normalised, comparable id of a peer reference or *)
(* of an entity.  Peer references are modelled by their normalised id.     *)
get_peer_id(x) == x

----------------------------------------------------------------------------
(* What the remote service may send back *)

Channel == 1
Entity(p, m) == [id |-> p, migrated_to |-> m]

(* Message ids seen in pages; a message's date is modelled as id + 10 *)
MsgIds == {1, 2}
Message == {[id |-> n, date |-> n + 10] : n \in MsgIds}

(* cd.dialog.pts: 0 when the dialog has none *)
PtsValues == {0, 1}

(* The `count` a messages.DialogsSlice may report *)
Counts == {7, 8}
NoCount == -1

SeqsUpTo(S, n) == UNION {[1 .. k -> S] : k \in 0 .. n}

(* The accounts the service may hold.  "paging": plain dialogs, any page   *)
(* sequence and any messages.  "totals": the reported count varies from    *)
(* page to page.  "channels": dialogs carry a pts and the chat with peer   *)
(* id 1 may show as migrated.                                              *)
Profiles == {"paging", "totals", "channels"}

PtsOf(s) == IF s = "channels" THEN PtsValues ELSE {0}

(* r.users and r.chats of one page: the migrated_to of each peer's entity *)
TablesOf(s) ==
    {[p \in Peers |-> None]} \cup
    (IF s = "channels" THEN {[p \in Peers |-> IF p = 1 THEN Channel ELSE None]} ELSE {})

CountsOf(s) == IF s = "totals" THEN Counts ELSE {7}

MessagesOf(s) ==
    IF s = "paging" THEN SeqsUpTo(Message, 1) ELSE {<<[id |-> 2, date |-> 12]>>}

(* messages.Dialogs has no `count`; messages.DialogsSlice has one *)
Shapes(s) == {[kind |-> "Dialogs", count |-> NoCount]}
             \cup {[kind |-> "DialogsSlice", count |-> c] : c \in CountsOf(s)}

Responses(s) ==
    {[kind |-> sh.kind, count |-> sh.count, dialogs |-> ds, messages |-> ms, migrated |-> et] :
        sh \in Shapes(s), ds \in SeqsUpTo([peer : Peers, pts : PtsOf(s)], MaxPageLen),
        ms \in MessagesOf(s), et \in TablesOf(s)}

(* entities = {utils.get_peer_id(x): x for x in chain(r.users, r.chats)} *)
entities(resp) == [p \in DOMAIN resp.migrated |-> Entity(p, resp.migrated[p])]

(* The end-to-end fixture: an account of FixtureDialogs dialogs, numbered  *)
(* in the service's order, the first FixturePinned of them pinned.  The    *)
(* top message of dialog k has id k.  A page holds at most FixtureCap      *)
(* dialogs: the pinned ones, echoed on every page, then the dialogs that   *)
(* follow the offset.                                                      *)
FixtureDialogs == 150
FixturePinned == 3
FixtureCap == 100

Range(a, b) == [k \in 1 .. (b - a + 1) |-> a + k - 1]

FixturePage(rq) ==
    LET n == Min(rq.limit, FixtureCap)
        from == IF rq.offset_id <= FixturePinned THEN FixturePinned + 1 ELSE rq.offset_id + 1
        to == Min(FixtureDialogs, from + (n - FixturePinned) - 1)
        ids == SubSeq(Range(1, FixturePinned), 1, Min(n, FixturePinned)) \o Range(from, to)
    IN  [kind |-> "DialogsSlice", count |-> FixtureDialogs,
         dialogs |-> [k \in DOMAIN ids |-> [peer |-> ids[k], pts |-> 0]],
         messages |-> IF ids = <<>> THEN <<>>
                      ELSE <<[id |-> ids[Len(ids)], date |-> ids[Len(ids)] + 10]>>,
         migrated |-> [p \in 1 .. FixtureDialogs |-> None]]

(* A scripted service: it answers the k-th fetch with the k-th page of its *)
(* script, whatever the request.  The last message of the k-th page has id *)
(* k.  A script is a listing of one or two pages: a complete response, or  *)
(* a slice and then a complete response.                                   *)
ScriptPeers == {1, 2}

ScriptPages(k) ==
    {[kind |-> sh.kind, count |-> sh.count, dialogs |-> ds,
      messages |-> <<[id |-> k, date |-> k + 10]>>,
      migrated |-> [p \in ScriptPeers |-> IF p = 1 THEN m ELSE None]] :
        sh \in Shapes("script"),
        ds \in SeqsUpTo([peer : ScriptPeers, pts : PtsValues], MaxPageLen),
        m \in {None, Channel}}

Listings(first, second) ==
    {<<p1>> : p1 \in {q \in first : q.kind = "Dialogs"}}
    \cup {<<p1, p2>> : p1 \in {q \in first : q.kind = "DialogsSlice"},
                       p2 \in {q \in second : q.kind = "Dialogs"}}

Scripts == Listings(ScriptPages(1), ScriptPages(2))

(* The scripts of two enumerations that run on one client: plain dialogs,  *)
(* each with the pts n, so that a pts tells which enumeration recorded it  *)
PairPages(k, n) ==
    {[kind |-> sh.kind, count |-> sh.count, dialogs |-> ds,
      messages |-> <<[id |-> k, date |-> k + 10]>>,
      migrated |-> [p \in ScriptPeers |-> None]] :
        sh \in Shapes("script"),
        ds \in SeqsUpTo([peer : ScriptPeers, pts : {n}], MaxPageLen)}

PairScripts(n) == Listings(PairPages(1, n), PairPages(2, n))

(* The script of the second enumeration: a slice with one dialog twice,    *)
(* then that dialog again and the other one                                *)
SecondScripts ==
    {sc \in PairScripts(2) :
        /\ Len(sc) = 2
        /\ \E p, q \in ScriptPeers :
              /\ p # q
              /\ sc[1].dialogs = <<[peer |-> p, pts |-> 2], [peer |-> p, pts |-> 2]>>
              /\ sc[2].dialogs = <<[peer |-> p, pts |-> 2], [peer |-> q, pts |-> 2]>>}

(* The scripts that go past their first page: a slice of up to LongPageLen *)
(* dialogs, long enough to be cut at `limit` and still leave the loop      *)
(* short of it, then one more page, which the service sends again to any   *)
(* later fetch.  Page k carries two messages, the last with id k and the   *)
(* first with id k + 1, and its own entities.                              *)
LongPageLen == MaxPageLen + 2

SlicePages(k, n) ==
    {[kind |-> sh.kind, count |-> sh.count, dialogs |-> ds,
      messages |-> <<[id |-> k + 1, date |-> k + 11], [id |-> k, date |-> k + 10]>>,
      migrated |-> [p \in ScriptPeers |-> IF p = 1 THEN m ELSE None]] :
        sh \in Shapes("script"),
        ds \in SeqsUpTo([peer : ScriptPeers, pts : {0}], n),
        m \in {None, Channel}}

SliceScripts ==
    {<<p1, p2>> : p1 \in {q \in SlicePages(1, LongPageLen) : q.kind = "DialogsSlice"},
                 p2 \in SlicePages(2, MaxPageLen)}

(* The page a scripted service sends to the k-th fetch *)
Sent(sc, k) == sc[Min(k, Len(sc))]

(* The peers an account knows *)
PeersOf(s) ==
    IF s = "fixture" THEN 1 .. FixtureDialogs
    ELSE IF s = "script" THEN ScriptPeers ELSE Peers

(* self(req): the responses the service may give to request rq, the *)
(* latest fetch issued                                              *)
Service(s, rq) ==
    IF s = "fixture" THEN {FixturePage(rq)}
    ELSE IF s = "script" THEN {Sent(script, fetches)}
    ELSE Responses(s)

----------------------------------------------------------------------------
(* The caller's arguments *)

NoOffset == [offset_date |-> None, offset_id |-> 0, offset_peer |-> InputPeerEmpty]
Offsets == {NoOffset, [offset_date |-> 11, offset_id |-> 1, offset_peer |-> Entity(1, None)]}

Limits == (0 .. MaxLimit) \cup {Inf}

Call(l, o, g, t) ==
    [limit |-> l, offset_date |-> o.offset_date, offset_id |-> o.offset_id,
     offset_peer |-> o.offset_peer, ignore_migrated |-> g, _total |-> t]

(* The calls made against each account *)
CallsOf(s) ==
    IF s = "paging" THEN {Call(l, o, FALSE, FALSE) : l \in Limits, o \in Offsets}
    ELSE IF s = "totals" THEN {Call(l, NoOffset, FALSE, t) : l \in Limits, t \in BOOLEAN}
                              \cup {Call(0, o, FALSE, TRUE) : o \in Offsets}
    ELSE {Call(l, NoOffset, g, TRUE) : l \in Limits \ {0}, g \in BOOLEAN}

----------------------------------------------------------------------------
(* The pieces of iter_dialogs *)

(* A probe that forgets the caller's offsets *)
ProbeRequestNoOffsets(a) ==
    [offset_date |-> None, offset_id |-> 0,
     offset_peer |-> InputPeerEmpty, limit |-> 1, exclude_pinned |-> FALSE]

(* The request of the limit == 0 probe, lines 58-64 *)
ProbeRequest(a) ==
    [offset_date |-> a.offset_date, offset_id |-> a.offset_id,
     offset_peer |-> a.offset_peer, limit |-> 1, exclude_pinned |-> FALSE]

(* req = functions.messages.GetDialogsRequest(..., limit=0, hash=0), lines 69-75 *)
GetDialogsRequest(a) ==
    [offset_date |-> a.offset_date, offset_id |-> a.offset_id,
     offset_peer |-> a.offset_peer, limit |-> 0, exclude_pinned |-> FALSE]

(* A total that ignores the response's count *)
PageTotalLenOnly(resp) == Len(resp.dialogs)

(* getattr(r, 'count', len(r.dialogs)), on the page as it was returned *)
PageTotal(resp) ==
    IF resp.count # NoCount THEN resp.count ELSE Len(resp.dialogs)

(* if len(r.dialogs) > limit: r.dialogs = r.dialogs[:limit] *)
Truncate(ds, limit) ==
    IF Len(ds) > limit THEN SubSeq(ds, 1, limit) ELSE ds

(* No deduplication *)
IsNewAlways(peer_id, sn) == TRUE

(* if peer_id not in seen *)
IsNew(peer_id, sn) == peer_id \notin sn

(* if cd.dialog.pts: self._channel_pts[cd.id] = cd.dialog.pts *)
RecordPts(cp, d) ==
    IF d.pts # 0 THEN [cp EXCEPT ![get_peer_id(d.peer)] = d.pts] ELSE cp

(* The migrated test is the wrong way round *)
EmitsInverted(ign, entity) == ~ign \/ entity.migrated_to # None

(* ignore_migrated has no effect *)
EmitsAlways(ign, entity) == TRUE

(* not ignore_migrated or getattr(cd.entity, 'migrated_to', None) is None *)
Emits(ign, entity) == ~ign \/ entity.migrated_to = None

(* custom.Dialog(self, d, entities, messages) *)
CustomDialog(d, ents) ==
    [id |-> get_peer_id(d.peer), pts |-> d.pts, entity |-> ents[get_peer_id(d.peer)]]

(* The for loop of lines 95-105 from index j on, up to the next yield or   *)
(* to the end of the page.                                                 *)
RECURSIVE Scan(_, _, _, _, _, _)

(* The pts of a dialog is recorded only if the dialog is emitted *)
ScanRecordsEmittedOnly(ds, ents, ign, j, sn, cp) ==
    IF j > Len(ds)
    THEN [yielded |-> FALSE, at |-> j, seen |-> sn, channel_pts |-> cp]
    ELSE LET d == ds[j]
             peer_id == get_peer_id(d.peer)
         IN  IF IsNew(peer_id, sn)
             THEN LET sn2 == sn \cup {peer_id}
                      cp2 == RecordPts(cp, d)
                  IN  IF Emits(ign, ents[peer_id])
                      THEN [yielded |-> TRUE, at |-> j, seen |-> sn2, channel_pts |-> cp2]
                      ELSE Scan(ds, ents, ign, j + 1, sn2, cp)
             ELSE Scan(ds, ents, ign, j + 1, sn, cp)

(* A dialog is remembered in `seen` only if it is emitted *)
ScanMarksEmittedOnly(ds, ents, ign, j, sn, cp) ==
    IF j > Len(ds)
    THEN [yielded |-> FALSE, at |-> j, seen |-> sn, channel_pts |-> cp]
    ELSE LET d == ds[j]
             peer_id == get_peer_id(d.peer)
         IN  IF IsNew(peer_id, sn)
             THEN LET sn2 == sn \cup {peer_id}
                      cp2 == RecordPts(cp, d)
                  IN  IF Emits(ign, ents[peer_id])
                      THEN [yielded |-> TRUE, at |-> j, seen |-> sn2, channel_pts |-> cp2]
                      ELSE Scan(ds, ents, ign, j + 1, sn, cp2)
             ELSE Scan(ds, ents, ign, j + 1, sn, cp)

(* A duplicate ends the for loop instead of being skipped: the dialogs     *)
(* after it are left in the page                                           *)
ScanBreakAtDuplicate(ds, ents, ign, j, sn, cp) ==
    IF j > Len(ds)
    THEN [yielded |-> FALSE, at |-> j, seen |-> sn, channel_pts |-> cp]
    ELSE LET d == ds[j]
             peer_id == get_peer_id(d.peer)
         IN  IF IsNew(peer_id, sn)
             THEN LET sn2 == sn \cup {peer_id}
                      cp2 == RecordPts(cp, d)
                  IN  IF Emits(ign, ents[peer_id])
                      THEN [yielded |-> TRUE, at |-> j, seen |-> sn2, channel_pts |-> cp2]
                      ELSE Scan(ds, ents, ign, j + 1, sn2, cp2)
             ELSE [yielded |-> FALSE, at |-> j, seen |-> sn, channel_pts |-> cp]

Scan(ds, ents, ign, j, sn, cp) ==
    IF j > Len(ds)
    THEN [yielded |-> FALSE, at |-> j, seen |-> sn, channel_pts |-> cp]
    ELSE LET d == ds[j]
             peer_id == get_peer_id(d.peer)
         IN  IF IsNew(peer_id, sn)
             THEN LET sn2 == sn \cup {peer_id}
                      cp2 == RecordPts(cp, d)
                  IN  IF Emits(ign, ents[peer_id])
                      THEN [yielded |-> TRUE, at |-> j, seen |-> sn2, channel_pts |-> cp2]
                      ELSE Scan(ds, ents, ign, j + 1, sn2, cp2)
             ELSE Scan(ds, ents, ign, j + 1, sn, cp)

(* Every request asks for the whole limit, whatever has been seen *)
LoopHeadWholeLimit(rq, sn, limit) ==
    IF Cardinality(sn) < limit
    THEN [pc |-> "await", req |-> [rq EXCEPT !.limit = Min(limit, ChunkSize)]]
    ELSE [pc |-> "done", req |-> rq]

(* while len(seen) < limit: req.limit = min(limit - len(seen), 100); await self(req) *)
LoopHead(rq, sn, limit) ==
    IF Cardinality(sn) < limit
    THEN [pc |-> "await", req |-> [rq EXCEPT !.limit = Min(limit - Cardinality(sn), ChunkSize)]]
    ELSE [pc |-> "done", req |-> rq]

(* Only a short page ends the enumeration *)
ReachedEndSizeOnly(rr, rq) == Len(rr.dialogs) < rq.limit

(* Only the response shape ends the enumeration *)
ReachedEndShapeOnly(rr, rq) == rr.kind # "DialogsSlice"

(* A full page ends the enumeration too *)
ReachedEndInclusive(rr, rq) ==
    Len(rr.dialogs) <= rq.limit \/ rr.kind # "DialogsSlice"

(* len(r.dialogs) < req.limit or not isinstance(r, types.messages.DialogsSlice) *)
ReachedEnd(rr, rq) ==
    Len(rr.dialogs) < rq.limit \/ rr.kind # "DialogsSlice"

(* No stuck-cursor guard *)
StuckNever(rq, m) == FALSE

(* if req.offset_id == r.messages[-1].id *)
Stuck(rq, m) == rq.offset_id = m.id

(* The whole page has been gone through once `at` is past its last dialog *)
PageDone(at, n) == at = n + 1

(* The cursor peer is taken from the page as it arrived, before the cut *)
AfterPageUncutPeer(rq, rr, sn, limit) ==
    IF ReachedEnd(rr, rq)
    THEN [pc |-> "done", req |-> rq]
    ELSE IF rr.messages = <<>> \/ rr.dialogs = <<>>
    THEN [pc |-> "error", req |-> rq]
    ELSE LET m == rr.messages[Len(rr.messages)]
             d == rr.returned[Len(rr.returned)]
             rq1 == [rq EXCEPT !.offset_date = m.date,
                               !.offset_peer = entities(rr)[get_peer_id(d.peer)]]
         IN  IF Stuck(rq1, m)
             THEN [pc |-> "done", req |-> rq1]
             ELSE LoopHead([rq1 EXCEPT !.offset_id = m.id, !.exclude_pinned = TRUE],
                           sn, limit)

(* Lines 107-122 and back to the loop head: what follows the for loop *)
AfterPage(rq, rr, sn, limit) ==
    IF ReachedEnd(rr, rq)
    THEN [pc |-> "done", req |-> rq]
    ELSE IF rr.messages = <<>> \/ rr.dialogs = <<>>
    THEN [pc |-> "error", req |-> rq]   \* r.messages[-1], r.dialogs[-1]: IndexError
    ELSE LET m == rr.messages[Len(rr.messages)]
             d == rr.dialogs[Len(rr.dialogs)]
             rq1 == [rq EXCEPT !.offset_date = m.date,
                               !.offset_peer = entities(rr)[get_peer_id(d.peer)]]
         IN  IF Stuck(rq1, m)
             THEN [pc |-> "done", req |-> rq1]
             ELSE LoopHead([rq1 EXCEPT !.offset_id = m.id, !.exclude_pinned = TRUE],
                           sn, limit)

(* What self(req) may raise instead of returning a page *)
TransportErrors == {"FloodWaitError", "ConnectionError"}

(* No exception: a name no exception has *)
NoException == "none"

NoError == [transport |-> NoException, surfaced |-> NoException]

(* The generator ends quietly when the transport raises *)
PropagateSwallowed(e) == [pc |-> "done", surfaced |-> NoException]

(* Lines 58 and 78 stand in no try block: what self(req) raises leaves the *)
(* generator as it is                                                      *)
Propagate(e) == [pc |-> "error", surfaced |-> e]

(* The fetch counter, which stops counting at MaxFetch so that an         *)
(* enumeration that never ends still has finitely many states             *)
Bump(n) == IF n < MaxFetch THEN n + 1 ELSE n

(* What the request asked and what came back, kept for the properties *)
Fetched(rq, resp, limit) ==
    LET ds == Truncate(resp.dialogs, limit)
    IN  [asked |-> rq.limit, offset_id |-> rq.offset_id, kind |-> resp.kind,
         count |-> resp.count, returned |-> Len(resp.dialogs),
         last_id |-> IF resp.messages = <<>> THEN None
                     ELSE resp.messages[Len(resp.messages)].id,
         last_date |-> IF resp.messages = <<>> THEN None
                       ELSE resp.messages[Len(resp.messages)].date,
         last_peer |-> IF ds = <<>> THEN InputPeerEmpty
                       ELSE entities(resp)[get_peer_id(ds[Len(ds)].peer)]]

(* The page as the loop holds it from line 93 on; `returned` keeps the     *)
(* dialog list as it arrived                                               *)
Received(resp, limit) ==
    [kind |-> resp.kind, count |-> resp.count, dialogs |-> Truncate(resp.dialogs, limit),
     returned |-> resp.dialogs, messages |-> resp.messages, migrated |-> resp.migrated]

----------------------------------------------------------------------------
(* State machine *)

(* The state when iter_dialogs has been called and not yet run *)
Created(s, a) ==
    /\ svc = s
    /\ args = a
    /\ pc = "start"
    /\ seen = {}
    /\ req = GetDialogsRequest(a)
    /\ r = NoPage
    /\ i = 0
    /\ total = 0
    /\ channel_pts = [p \in PeersOf(s) |-> 0]
    /\ emitted = <<>>
    /\ fetches = 0
    /\ last = NoPage
    /\ exc = NoError
    /\ burst = 0

(* No other enumeration runs on the client *)
NoOther == [id |-> 0]

Init ==
    /\ \E s \in Profiles : \E a \in CallsOf(s) : Created(s, a)
    /\ script = <<>>
    /\ other = NoOther

(* get_dialogs against the fixture, with limit 0, 10 or None *)
InitFixture ==
    /\ \E l \in {0, 10, Inf} : Created("fixture", Call(l, NoOffset, FALSE, TRUE))
    /\ script = <<>>
    /\ other = NoOther

(* iter_dialogs against a scripted service, any script *)
InitScript ==
    /\ \E l \in Limits, g \in BOOLEAN :
          /\ l = 0 => ~g
          /\ Created("script", Call(l, NoOffset, g, TRUE))
    /\ script \in Scripts
    /\ other = NoOther

(* Resume the for loop at index j with page rr, then run to the next suspension *)
Continue(rr, j) ==
    LET s == Scan(rr.dialogs, entities(rr), args.ignore_migrated, j, seen, channel_pts)
    IN  /\ seen' = s.seen
        /\ channel_pts' = s.channel_pts
        /\ r' = IF s.yielded THEN rr ELSE NoPage
        /\ IF s.yielded
           THEN /\ pc' = "yield"
                /\ i' = s.at
                /\ emitted' = Append(emitted, CustomDialog(rr.dialogs[s.at], entities(rr)))
                /\ UNCHANGED <<req, fetches, exc>>
           ELSE LET n == AfterPage(req, rr, s.seen, args.limit)
                IN  /\ pc' = n.pc
                    /\ req' = n.req
                    /\ i' = s.at
                    /\ fetches' = IF n.pc = "await" THEN Bump(fetches) ELSE fetches
                    /\ exc' = IF n.pc = "error"
                              THEN [transport |-> NoException, surfaced |-> "IndexError"]
                              ELSE exc
                    /\ UNCHANGED emitted

(* The consumer's first request: lines 53-78 up to the first await *)
Start ==
    /\ pc = "start"
    /\ IF args.limit = 0
       THEN IF ~args._total
            THEN /\ pc' = "done"
                 /\ UNCHANGED <<req, fetches>>
            ELSE /\ pc' = "await0"
                 /\ req' = ProbeRequest(args)
                 /\ fetches' = Bump(fetches)
       ELSE LET n == LoopHead(GetDialogsRequest(args), {}, args.limit)
            IN  /\ pc' = n.pc
                /\ req' = n.req
                /\ fetches' = IF n.pc = "await" THEN Bump(fetches) ELSE fetches
    /\ burst' = IF pc' \in {"await0", "await"} THEN 1 ELSE 0
    /\ UNCHANGED <<svc, args, seen, r, i, total, channel_pts, emitted, last, exc, script, other>>

(* The limit-0 fetch returns: lines 65-66 *)
Response0 ==
    /\ pc = "await0"
    /\ \E resp \in Service(svc, req) :
        /\ total' = PageTotal(resp)
        /\ last' = Fetched(req, resp, args.limit)
    /\ pc' = "done"
    /\ UNCHANGED <<svc, args, seen, req, r, i, channel_pts, emitted, fetches, exc, script,
                   burst, other>>

(* A fetch of the loop returns: lines 80-95, then on to the next suspension *)
Response ==
    /\ pc = "await"
    /\ \E resp \in Service(svc, req) :
        /\ total' = IF args._total THEN PageTotal(resp) ELSE total
        /\ last' = Fetched(req, resp, args.limit)
        /\ Continue(Received(resp, args.limit), 1)
    /\ burst' = IF pc' = "await" THEN Bump(burst) ELSE burst
    /\ UNCHANGED <<svc, args, script, other>>

(* The consumer takes the record and asks for the next one: the generator  *)
(* resumes after `await yield_(cd)`                                        *)
Resume ==
    /\ pc = "yield"
    /\ Continue(r, i + 1)
    /\ burst' = IF pc' = "await" THEN 1 ELSE 0
    /\ UNCHANGED <<svc, args, total, last, script, other>>

(* The locals of the enumeration that takes the steps: the arguments and   *)
(* local variables of its iter_dialogs call, its position, the total and   *)
(* the list of its consumer, and what is kept about it for the properties  *)
Locals(n) ==
    [id |-> n, args |-> args, pc |-> pc, seen |-> seen, req |-> req, r |-> r, i |-> i,
     total |-> total, emitted |-> emitted, fetches |-> fetches, last |-> last,
     exc |-> exc, script |-> script, burst |-> burst]

(* The locals of an enumeration that has been called and not yet run *)
Fresh(n, a, sc) ==
    [id |-> n, args |-> a, pc |-> "start", seen |-> {}, req |-> GetDialogsRequest(a),
     r |-> NoPage, i |-> 0, total |-> 0, emitted |-> <<>>, fetches |-> 0, last |-> NoPage,
     exc |-> NoError, script |-> sc, burst |-> 0]

(* One `seen` set for all the enumerations of the client *)
LoadSeenShared(own, running) == running

(* seen = set(), line 68: each call of iter_dialogs has its own; own is    *)
(* the set of the enumeration that takes over, running the set of the one  *)
(* that ran                                                                *)
LoadSeen(own, running) == own

(* The event loop turns to the other enumeration: both are suspended, in   *)
(* await self(req) or await yield_(cd), not started or over.  Their locals *)
(* change places; the client, with self._channel_pts, is the same.         *)
Switch ==
    /\ other # NoOther
    /\ other' = Locals(3 - other.id)
    /\ args' = other.args
    /\ pc' = other.pc
    /\ seen' = LoadSeen(other.seen, seen)
    /\ req' = other.req
    /\ r' = other.r
    /\ i' = other.i
    /\ total' = other.total
    /\ emitted' = other.emitted
    /\ fetches' = other.fetches
    /\ last' = other.last
    /\ exc' = other.exc
    /\ script' = other.script
    /\ burst' = other.burst
    /\ UNCHANGED <<svc, channel_pts>>

(* The consumer stops asking: it leaves its `async for` before the first   *)
(* record or with the record it was handed, and never awaits the generator *)
(* again.  The generator is left for good where it was suspended.          *)
Abandon ==
    /\ pc \in {"start", "yield"}
    /\ pc' = "closed"
    /\ UNCHANGED <<svc, args, seen, req, r, i, total, channel_pts, emitted, fetches, last,
                   exc, script, burst, other>>

(* A fetch fails: self(req) raises at line 58 or 78 *)
Fail ==
    /\ pc \in {"await0", "await"}
    /\ \E e \in TransportErrors :
        LET n == Propagate(e)
        IN  /\ pc' = n.pc
            /\ exc' = [transport |-> e, surfaced |-> n.surfaced]
    /\ UNCHANGED <<svc, args, seen, req, r, i, total, channel_pts, emitted, fetches, last,
                   script, burst, other>>

Next == Start \/ Response0 \/ Response \/ Resume

Spec == Init /\ [][Next]_vars

(* Any consumer of iter_dialogs, one that may stop asking at any record,   *)
(* over a transport whose fetches may fail                                 *)
NextOpen == Start \/ Response0 \/ Response \/ Resume \/ Abandon \/ Fail

SpecOpen == Init /\ [][NextOpen]_vars

(* get_dialogs keeps asking and every fetch returns *)
FairSpec == Spec /\ WF_vars(Next)

SpecFixture == InitFixture /\ [][Next]_vars

SpecScript == InitScript /\ [][Next]_vars

(* iter_dialogs against a service that goes past its first page: limit 0, *)
(* MaxLimit or one more, the caller's offsets set or not                   *)
SliceLimits == {0, MaxLimit, MaxLimit + 1}

InitSlices ==
    /\ \E l \in SliceLimits, o \in Offsets, g \in BOOLEAN :
          /\ l = 0 => ~g
          /\ Created("script", Call(l, o, g, TRUE))
    /\ script \in SliceScripts
    /\ other = NoOther

SpecSlices == InitSlices /\ [][Next]_vars

(* Two get_dialogs calls on one client, each against its own script: any   *)
(* limit for the first, limit 2 for the second                             *)
InitPair ==
    /\ \E l \in Limits : Created("script", Call(l, NoOffset, FALSE, TRUE))
    /\ script \in PairScripts(1)
    /\ \E sc \in SecondScripts : other = Fresh(2, Call(2, NoOffset, FALSE, TRUE), sc)

(* Two enumerations on one client, their steps interleaved in any way *)
NextPair == Start \/ Response0 \/ Response \/ Resume \/ Switch

SpecPair == InitPair /\ [][NextPair]_vars

----------------------------------------------------------------------------
(* Properties *)

EmittedIds == {emitted[k].id : k \in DOMAIN emitted}

(* The total of the most recently fetched page, from what came back *)
LastPageTotal == IF last.count # NoCount THEN last.count ELSE last.returned

(* C1: iter_dialogs yields at most `limit` dialogs over the whole          *)
(* enumeration, whatever pages the service returns.                        *)
AtMostLimit == Len(emitted) <= args.limit

(* C2: no PeerId appears twice in the emitted sequence, even when the      *)
(* service returns the same dialog in several pages or twice in a page.    *)
NoPeerTwice ==
    \A j, k \in DOMAIN emitted : j # k => emitted[j].id # emitted[k].id

(* The first dialog of the second page was already emitted from the first  *)
(* page and is skipped; the second dialog is being yielded.                *)
NoPeerTwiceWitness ==
    /\ svc = "paging" /\ pc = "yield" /\ fetches = 2
    /\ i = 2 /\ Len(emitted) = 2
    /\ r.dialogs[1].peer = emitted[1].id

(* C3: with limit == 0 and a total handle, exactly one fetch is issued, of *)
(* size 1 with the caller's offsets, the handle gets that page's total and *)
(* nothing is emitted; without a handle no fetch is issued and nothing is  *)
(* emitted.                                                                *)
ProbeOnly ==
    args.limit = 0 =>
        /\ emitted = <<>>
        /\ IF args._total
           THEN \/ pc = "start" /\ fetches = 0
                \/ /\ pc \in {"await0", "done"}
                   /\ fetches = 1
                   /\ req = [offset_date |-> args.offset_date, offset_id |-> args.offset_id,
                             offset_peer |-> args.offset_peer, limit |-> 1,
                             exclude_pinned |-> FALSE]
                   /\ pc = "done" => total = LastPageTotal
           ELSE fetches = 0 /\ pc \in {"start", "done"}

(* A probe with the caller's own offsets has returned and set the total *)
ProbeOnlyWitness ==
    /\ args.limit = 0 /\ args._total /\ args.offset_id = 1
    /\ pc = "done" /\ total = 8

(* C4: of a page with more dialogs than the size requested for that fetch, *)
(* only the first requested-size dialogs are processed (deduplicated,      *)
(* emitted, recorded) and the others are discarded.                        *)
OverflowCutToRequested ==
    (args.limit # 0 /\ last # NoPage /\ last.returned > last.asked) =>
        /\ pc = "yield" => r.dialogs = SubSeq(r.returned, 1, last.asked)
        /\ pc \in {"await", "done", "error"} => i - 1 = last.asked

(* C5: every enumeration terminates: only finitely many page fetches are   *)
(* issued, whatever the service keeps returning.                           *)
Terminates == <>(pc \in {"done", "error"})

(* C6: if the offset_id computed from a page equals the offset_id of the   *)
(* request that fetched it, no further fetch is issued: a fetch is in      *)
(* flight only if the page before it moved the cursor.                     *)
NoFetchAfterStuck ==
    (pc = "await" /\ last # NoPage) => last.last_id # last.offset_id

(* Two consecutive full slices gave the same offset_id and the enumeration *)
(* stopped after the second, short of `limit`.                             *)
NoFetchAfterStuckWitness ==
    /\ pc = "done" /\ fetches = 2 /\ last # NoPage
    /\ last.kind = "DialogsSlice" /\ last.returned >= last.asked
    /\ last.last_id # None /\ last.last_id = last.offset_id
    /\ Cardinality(seen) < args.limit

(* C7: after a page with fewer dialogs than the size requested for that    *)
(* fetch, no further fetch is issued, even short of `limit`.               *)
NoFetchAfterShortPage ==
    (pc = "await" /\ last # NoPage) => last.returned >= last.asked

(* A short slice whose cursor moved ended the enumeration short of `limit` *)
NoFetchAfterShortPageWitness ==
    /\ pc = "done" /\ args.limit # 0 /\ last # NoPage
    /\ last.kind = "DialogsSlice" /\ last.returned > 0 /\ last.returned < last.asked
    /\ last.last_id # None /\ last.last_id # last.offset_id
    /\ Len(emitted) < args.limit

(* C8: with ignore_migrated no emitted record has an entity with           *)
(* migrated_to set; without it every distinct processed dialog is emitted. *)
MigratedFiltering ==
    /\ args.ignore_migrated =>
          \A k \in DOMAIN emitted : emitted[k].entity.migrated_to = None
    /\ ~args.ignore_migrated => EmittedIds = seen

(* A migrated chat was processed and held back, another dialog was emitted *)
MigratedFilteringWitness ==
    /\ svc = "channels" /\ args.ignore_migrated /\ pc = "done"
    /\ 1 \in seen /\ 1 \notin EmittedIds /\ emitted # <<>>

(* C9: with a handle, after every fetch the handle holds the total of the  *)
(* most recently fetched page: its count if it has one, else the number of *)
(* dialogs it came with; so get_dialogs returns that total, whatever the   *)
(* number of records.                                                      *)
TotalIsLastPage ==
    (args._total /\ last # NoPage) => total = LastPageTotal

(* Two pages fetched, one record returned, the total is the second page's *)
TotalIsLastPageWitness ==
    /\ svc = "totals" /\ args._total /\ pc = "done" /\ fetches = 2
    /\ total = 8 /\ last.count = 8 /\ Len(emitted) = 1

(* C10: against the fixture (150 dialogs, 3 pinned, pages capped at 100,   *)
(* pinned dialogs echoed on both pages) an unbounded enumeration makes     *)
(* exactly 2 fetches and emits the 150 dialogs once each, in the service's *)
(* order.                                                                  *)
EndToEnd ==
    /\ pc # "error"
    /\ (args.limit = Inf /\ pc = "done") =>
          /\ fetches = 2
          /\ [k \in DOMAIN emitted |-> emitted[k].id] = Range(1, FixtureDialogs)

(* The unbounded enumeration of the fixture has finished *)
EndToEndWitness ==
    /\ svc = "fixture" /\ args.limit = Inf /\ pc = "done"
    /\ fetches = 2 /\ Len(emitted) = FixtureDialogs

(* C11: a page fetch is issued only by a step the generator takes for a    *)
(* pending consumer request (its first request, the request that follows a *)
(* record, or the same request once a page has come in) and only when the  *)
(* page fetched before has been gone through to its end; once the consumer *)
(* has stopped asking, no fetch is issued and nothing changes.             *)
LazyFetching ==
    [][/\ pc' \in {"await0", "await"} =>
            /\ pc \in {"start", "yield", "await"}
            /\ pc = "yield" => PageDone(i', Len(r.dialogs))
            /\ pc = "await" => PageDone(i', Min(last'.returned, args.limit))
       /\ pc = "closed" => (pc' = "closed" /\ fetches' = fetches /\ req' = req)]_vars

(* The consumer stopped with the last new record of a full slice in hand,  *)
(* short of `limit`: asking once more would have fetched the next page.    *)
LazyFetchingWitness ==
    /\ pc = "closed" /\ fetches = 1 /\ r # NoPage
    /\ \A k \in (i + 1) .. Len(r.dialogs) : r.dialogs[k].peer \in seen
    /\ last.kind = "DialogsSlice" /\ last.returned >= last.asked
    /\ last.last_id # None /\ last.last_id # last.offset_id
    /\ Cardinality(seen) < args.limit

(* C12: when a fetch fails, the enumeration ends with the very error the   *)
(* transport raised, no fetch is in flight or issued from then on, the     *)
(* records emitted stay as they are and the total keeps what the last page *)
(* that came in wrote (0, get_dialogs' initial value, if none did).        *)
ErrorsPropagate ==
    [][exc'.transport # NoException =>
          /\ pc' = "error"
          /\ exc'.surfaced = exc'.transport
          /\ emitted' = emitted
          /\ fetches' = fetches /\ req' = req
          /\ total' = total
          /\ total' = IF args._total /\ last' # NoPage THEN LastPageTotal' ELSE 0]_vars

(* The second fetch failed after the first page gave a record and a total *)
ErrorsPropagateWitness ==
    /\ pc = "error" /\ exc.transport = "FloodWaitError" /\ fetches = 2
    /\ Len(emitted) = 1 /\ args._total /\ total = 8

(* No termination condition fired on the most recent page: it was a slice  *)
(* of at least the size asked for and its last message moved the cursor    *)
LastPageGoesOn ==
    /\ last # NoPage /\ args.limit # 0
    /\ last.kind = "DialogsSlice" /\ last.returned >= last.asked
    /\ last.last_id # None /\ last.last_id # last.offset_id

(* C13: after a page on which no termination condition fired, another page *)
(* is fetched if and only if fewer than `limit` records have been emitted: *)
(* a fetch is in flight only short of `limit` emitted records, and the     *)
(* enumeration is over only with `limit` records emitted; dialogs that     *)
(* ignore_migrated held back do not count.                                 *)
EmittedCountDrivesLoop ==
    LastPageGoesOn =>
        /\ pc = "await" => Len(emitted) < args.limit
        /\ pc = "done" => Len(emitted) >= args.limit

(* C14: every fetch of an enumeration with limit > 0 asks for a page size  *)
(* from 1 to 100, and for no more than `limit` minus the number of records *)
(* emitted so far.                                                         *)
PageSizeInRange ==
    (args.limit > 0 /\ pc = "await") =>
        /\ req.limit >= 1 /\ req.limit <= 100
        /\ req.limit <= args.limit - Len(emitted)

(* The second fetch of a limit-2 enumeration asks for 1: one dialog was    *)
(* seen and held back as migrated, none emitted.                           *)
PageSizeInRangeWitness ==
    /\ svc = "channels" /\ args.ignore_migrated /\ args.limit = 2
    /\ pc = "await" /\ fetches = 2 /\ req.limit = 1
    /\ seen = {1} /\ emitted = <<>>

(* C15: the first request carries the caller's offset_date, offset_id and  *)
(* offset_peer and no exclude_pinned; every later request carries the date *)
(* and id of the last message of the page just before it, as offset_peer   *)
(* the entity, in that page's table, of the last dialog processed of that  *)
(* page (the last one left by the cut at `limit`), and exclude_pinned set. *)
CursorAdvance ==
    pc \in {"await0", "await"} =>
        IF fetches = 1
        THEN /\ req.offset_date = args.offset_date
             /\ req.offset_id = args.offset_id
             /\ req.offset_peer = args.offset_peer
             /\ req.exclude_pinned = FALSE
        ELSE LET page == Sent(script, fetches - 1)
                 processed == SubSeq(page.dialogs, 1, Min(Len(page.dialogs), args.limit))
                 m == page.messages[Len(page.messages)]
                 d == processed[Len(processed)]
             IN  /\ req.offset_date = m.date
                 /\ req.offset_id = m.id
                 /\ req.offset_peer = Entity(d.peer, page.migrated[d.peer])
                 /\ req.exclude_pinned = TRUE

(* The second request of a limit-3 enumeration follows a page of four      *)
(* dialogs, 1, 1 or 2, 2, 1, cut to three: its offset_peer is dialog 2,    *)
(* the last one processed, neither the first processed nor the last        *)
(* returned, and its date and id are those of the second of two messages.  *)
CursorAdvanceWitness ==
    /\ svc = "script" /\ pc = "await" /\ fetches = 2 /\ args.limit = 3
    /\ args.offset_id = 0
    /\ [k \in DOMAIN script[1].dialogs |-> script[1].dialogs[k].peer] \in
          {<<1, 1, 2, 1>>, <<1, 2, 2, 1>>}
    /\ script[1].migrated[1] = Channel
    /\ script[1].messages[1].id # script[1].messages[2].id
    /\ req.offset_peer = Entity(2, None)
    /\ req.offset_id = 1 /\ req.offset_date = 11 /\ req.exclude_pinned
    /\ seen = {1, 2}

(* The number of pages whose for loop has ended, and how far the for loop  *)
(* is in the page after them                                               *)
PagesDone ==
    IF pc \in {"start", "await0"} \/ args.limit = 0 THEN 0
    ELSE IF pc \in {"await", "yield"} THEN fetches - 1
    ELSE fetches

(* The dialogs of a page as the for loop gets them, joined with the page's *)
(* entities, up to index n                                                 *)
Records(page, n) ==
    LET ds == Truncate(page.dialogs, args.limit)
    IN  [k \in 1 .. Min(n, Len(ds)) |-> CustomDialog(ds[k], entities(page))]

(* All the dialogs gone through in the first n pages of script sc, in order *)
RECURSIVE GoneThrough(_, _)
GoneThrough(sc, n) ==
    IF n = 0 THEN <<>>
    ELSE GoneThrough(sc, n - 1) \o Records(Sent(sc, n), Len(Sent(sc, n).dialogs))

(* All the dialogs gone through so far *)
GoneThroughSoFar ==
    GoneThrough(script, PagesDone)
    \o (IF pc = "yield" THEN Records(Sent(script, fetches), i) ELSE <<>>)

(* The first occurrence of each id among the first n of sq, in order, less *)
(* the records ignore_migrated holds back                                  *)
RECURSIVE FirstOccurrences(_, _)
FirstOccurrences(sq, n) ==
    IF n = 0 THEN <<>>
    ELSE LET before == FirstOccurrences(sq, n - 1)
         IN  IF /\ \A j \in 1 .. (n - 1) : sq[j].id # sq[n].id
                /\ (~args.ignore_migrated \/ sq[n].entity.migrated_to = None)
             THEN Append(before, sq[n])
             ELSE before

(* C16: the emitted sequence is the dialogs gone through, page after page  *)
(* in fetch order and in page order within a page, cut down to the first   *)
(* occurrence of each PeerId less the migrated records held back; while    *)
(* the fetch of page k+1 is in flight that is all of pages 1..k, so page   *)
(* k+1 is fetched only when page k has come in and been gone through.      *)
EmittedInOrder ==
    emitted = FirstOccurrences(GoneThroughSoFar, Len(GoneThroughSoFar))

(* Page 1 is dialog 2 twice, page 2 is dialog 2 again and then dialog 1:   *)
(* the records emitted are 2 and then 1.                                   *)
EmittedInOrderWitness ==
    /\ svc = "script" /\ pc = "done" /\ fetches = 2 /\ args.limit = 2
    /\ [k \in DOMAIN script[1].dialogs |-> script[1].dialogs[k].peer] = <<2, 2>>
    /\ [k \in DOMAIN script[2].dialogs |-> script[2].dialogs[k].peer] = <<2, 1>>
    /\ [k \in DOMAIN emitted |-> emitted[k].id] = <<2, 1>>

(* C17: after a page that came as a complete response (messages.Dialogs,   *)
(* not a slice) no further fetch is issued, whatever the number of dialogs *)
(* in it and whether or not `limit` is reached: its records are handed out *)
(* and the enumeration is over.                                            *)
NoFetchAfterComplete ==
    (last # NoPage /\ last.kind = "Dialogs") => pc \in {"yield", "done"}

(* A complete response as long as the size asked for, whose last message   *)
(* moved the cursor, ended the enumeration short of `limit`.               *)
NoFetchAfterCompleteWitness ==
    /\ pc = "done" /\ args.limit # 0 /\ last # NoPage /\ last.kind = "Dialogs"
    /\ last.returned >= last.asked
    /\ last.last_id # None /\ last.last_id # last.offset_id
    /\ Cardinality(seen) < args.limit

(* The positions in sq of the first occurrence of each id *)
Firsts(sq) ==
    {k \in DOMAIN sq : \A j \in 1 .. (k - 1) : sq[j].id # sq[k].id}

(* C18: self._channel_pts[id] holds the pts of the first occurrence of the *)
(* dialog id among the dialogs gone through, if that pts is not zero, also *)
(* when ignore_migrated held that dialog back; a later occurrence (skipped *)
(* as a duplicate) or a dialog cut off by the truncation writes nothing,   *)
(* and every other entry is as it was at the start.                        *)
RegistryWrites ==
    \A p \in DOMAIN channel_pts :
        LET sq == GoneThroughSoFar
            ks == {k \in Firsts(sq) : sq[k].id = p /\ sq[k].pts # 0}
        IN  IF ks = {} THEN channel_pts[p] = 0
            ELSE \A k \in ks : channel_pts[p] = sq[k].pts

(* Chat 1 came first with a pts, was held back as migrated, and its pts is *)
(* in the registry; dialog 2 came first without a pts and then again, as a *)
(* duplicate, with one: the registry has nothing for it.                   *)
RegistryWritesWitness ==
    /\ svc = "script" /\ args.ignore_migrated /\ pc = "done" /\ fetches = 2
    /\ 1 \in seen /\ 1 \notin EmittedIds /\ channel_pts[1] = 1
    /\ 2 \in EmittedIds /\ channel_pts[2] = 0
    /\ \E k \in DOMAIN script[2].dialogs :
          script[2].dialogs[k] = [peer |-> 2, pts |-> 1]

(* C19, as stated: one request of the consumer triggers at most one fetch, *)
(* also when the page fetched has no record to emit.                       *)
FetchOncePerRequest == burst <= 1

(* C19, amended: one request of the consumer may trigger several fetches. *)
(* A further fetch for the same request is issued only after a page that   *)
(* gave no record to emit (all its dialogs duplicates or held back as      *)
(* migrated) and on which no termination condition fired; the pages        *)
(* fetched for a request, but for the latest, added nothing to what was to *)
(* be emitted, so a page that gives a record answers the request with it   *)
(* before any further fetch.                                               *)
FetchAgainOnlyAfterBarrenPage ==
    burst >= 1 =>
        /\ burst <= fetches
        /\ LET upto == GoneThrough(script, fetches - 1)
               before == GoneThrough(script, fetches - burst)
           IN  FirstOccurrences(upto, Len(upto)) = FirstOccurrences(before, Len(before))
        /\ (burst >= 2 /\ pc = "await") => LastPageGoesOn
        /\ pc = "yield" =>
              emitted = Append(FirstOccurrences(GoneThrough(script, fetches - 1),
                                                Len(GoneThrough(script, fetches - 1))),
                               emitted[Len(emitted)])

(* The first request fetched a full slice holding only chat 1, held back   *)
(* as migrated, then a full slice holding only chat 1 again, skipped as a  *)
(* duplicate, and its third fetch is in flight: no record yet.             *)
FetchAgainOnlyAfterBarrenPageWitness ==
    /\ svc = "script" /\ args.ignore_migrated /\ pc = "await"
    /\ fetches = 3 /\ burst = 3 /\ seen = {1} /\ emitted = <<>>
    /\ script[1].migrated[1] = Channel /\ script[2].migrated[1] = None

(* The ids of the dialogs in sq *)
IdsOf(sq) == {sq[k].id : k \in DOMAIN sq}

(* The number of fetches that have returned *)
Responded ==
    IF pc \in {"start", "await0"} THEN 0
    ELSE IF pc = "await" THEN fetches - 1
    ELSE fetches

(* The request of fetch number n of an enumeration with arguments a against *)
(* script sc, n > 0 and a.limit > 0, from the pages before it alone         *)
RequestNo(sc, a, n) ==
    LET gone == GoneThrough(sc, n - 1)
        size == Min(a.limit - Cardinality(IdsOf(gone)), ChunkSize)
    IN  IF n = 1
        THEN [offset_date |-> a.offset_date, offset_id |-> a.offset_id,
              offset_peer |-> a.offset_peer, limit |-> size, exclude_pinned |-> FALSE]
        ELSE LET page == Sent(sc, n - 1)
                 recs == Records(page, Len(page.dialogs))
                 m == page.messages[Len(page.messages)]
             IN  [offset_date |-> m.date, offset_id |-> m.id,
                  offset_peer |-> recs[Len(recs)].entity, limit |-> size,
                  exclude_pinned |-> TRUE]

(* C20: with two enumerations on one client, their steps interleaved in    *)
(* any way at fetches and yields, what each has emitted, its `seen` set,   *)
(* its request in flight and its total follow from its own arguments and   *)
(* its own responses alone, as when it runs alone; and the registry holds  *)
(* for a key nothing or the pts that one of the two recorded for that key. *)
Isolation ==
    /\ emitted = FirstOccurrences(GoneThroughSoFar, Len(GoneThroughSoFar))
    /\ seen = IdsOf(GoneThroughSoFar)
    /\ pc = "await" => req = RequestNo(script, args, fetches)
    /\ total = IF Responded = 0 THEN 0 ELSE PageTotal(Sent(script, Responded))
    /\ \A p \in DOMAIN channel_pts :
          \/ channel_pts[p] = 0
          \/ \E k \in Firsts(GoneThroughSoFar) :
                /\ GoneThroughSoFar[k].id = p
                /\ GoneThroughSoFar[k].pts = channel_pts[p]
          \/ /\ other # NoOther
             /\ p \in other.seen
             /\ \E n \in DOMAIN other.script : \E k \in DOMAIN other.script[n].dialogs :
                   /\ get_peer_id(other.script[n].dialogs[k].peer) = p
                   /\ other.script[n].dialogs[k].pts = channel_pts[p]

(* Both enumerations are at their second page and both have seen dialog 1; *)
(* the one that takes the steps is handing out a record, the fetch of the  *)
(* other is in flight.                                                     *)
IsolationWitness ==
    /\ other # NoOther /\ other.id = 2
    /\ pc = "yield" /\ fetches = 2 /\ 1 \in seen
    /\ other.pc = "await" /\ other.fetches = 2 /\ 1 \in other.seen

====
